---- MODULE Spec2Model ----
(***************************************************************************)
(* Timetable optimiser: conflict evaluation between weekly sessions, the   *)
(* CP-SAT assignment model of build_model, the best-only solve wrapper and *)
(* the infeasibility analyser of solver.py.                                *)
(***************************************************************************)
EXTENDS Integers, Sequences, FiniteSets, TLC

VARIABLES lectures, index_map, selected_courses, pc, model, status, solution, result,
          sa, sb, out, num_solutions, collector, previous, rows, week_pattern

vars == <<lectures, index_map, selected_courses, pc, model, status, solution, result,
          sa, sb, out, num_solutions, collector, previous, rows, week_pattern>>

(***************************************************************************)
(* Bounds of the explored inputs.                                          *)
(***************************************************************************)
MaxSessions == 3
MaxPerOption == 2
MaxLectures == 1
MaxTime == 2
MaxSolutions == 2
MaxRows == 2

(***************************************************************************)
(* Program constants.                                                      *)
(***************************************************************************)
NumDays == 5
LastWeek == 13

Days == 0 .. (NumDays - 1)
ALL_WEEKS == 1 .. LastWeek
EVEN_WEEKS == {w \in ALL_WEEKS : w % 2 = 0}
ODD_WEEKS == {w \in ALL_WEEKS : w % 2 = 1}

(***************************************************************************)
(* Overlap detection helpers.                                              *)
(***************************************************************************)
\* Variant: closed intervals, so that touching sessions overlap.
sessions_overlap_closed(a, b) ==
    IF a.day # b.day THEN FALSE
    ELSE ~(a.end < b.start \/ b.end < a.start)

sessions_overlap(a, b) ==
    IF a.day # b.day THEN FALSE
    ELSE ~(a.end <= b.start \/ b.end <= a.start)

labs_conflict(a, b) ==
    IF ~sessions_overlap(a, b) THEN FALSE
    ELSE (a.weeks \cap b.weeks) # {}

\* Variant: no special case for two labs.
strict_conflict_no_lab_rule(a, b) == sessions_overlap(a, b)

\* Variant: the lab rule is entered when the first session alone is a lab.
strict_conflict_first_lab(a, b) ==
    IF ~sessions_overlap(a, b) THEN FALSE
    ELSE IF a.type = "LAB" THEN labs_conflict(a, b)
    ELSE TRUE

\* Variant: the week test of labs applied to every pair.
strict_conflict_weeks_always(a, b) == labs_conflict(a, b)

strict_conflict(a, b) ==
    IF ~sessions_overlap(a, b) THEN FALSE
    ELSE IF a.type = "LAB" /\ b.type = "LAB" THEN labs_conflict(a, b)
    ELSE TRUE

\* Variant: the weeks are consulted for two labs only.
clash_weeks_for_labs_only(a, b) ==
    IF a.type = "LAB" /\ b.type = "LAB"
    THEN (IF strict_conflict(a, b) THEN (a.weeks \cap b.weeks) # {} ELSE FALSE)
    ELSE strict_conflict(a, b)

\* Variant: the callers' week intersection is left out.
clash_ignoring_weeks(a, b) == strict_conflict(a, b)

\* The guard under which build_model and analyze_infeasibility act on a pair:
\* strict_conflict first, then the callers' own week intersection.
clash(a, b) ==
    IF strict_conflict(a, b) THEN (a.weeks \cap b.weeks) # {} ELSE FALSE

(***************************************************************************)
(* build_model.  index_map is the dict in insertion order: a sequence of   *)
(* [course, index, sessions].  A decision variable is named by its key.    *)
(***************************************************************************)
KeyAt(imap, k) == <<imap[k].course, imap[k].index>>

chosen_keys(imap) == {KeyAt(imap, k) : k \in 1 .. Len(imap)}

eligible(imap, course) == {KeyAt(imap, k) : k \in {n \in 1 .. Len(imap) : imap[n].course = course}}

\* Variant: the constraint is added for the first selected course only.
exactly_one_first_only(imap, selected) ==
    {eligible(imap, selected[n]) : n \in {m \in 1 .. Len(selected) :
                                             m = 1 /\ eligible(imap, selected[m]) # {}}}

\* Variant: the constraint is added for every selected course, with or
\* without options.
exactly_one_unguarded(imap, selected) ==
    {eligible(imap, selected[n]) : n \in 1 .. Len(selected)}

exactly_one(imap, selected) ==
    {eligible(imap, selected[n]) : n \in {m \in 1 .. Len(selected) : eligible(imap, selected[m]) # {}}}

RECURSIVE all_index_sessions(_)
all_index_sessions(imap) ==
    IF imap = <<>> THEN <<>>
    ELSE [j \in 1 .. Len(Head(imap).sessions) |->
              [course |-> Head(imap).course, index |-> Head(imap).index,
               s |-> Head(imap).sessions[j]]]
         \o all_index_sessions(Tail(imap))

\* Variant: a course's own lecture is skipped, as in the analyzer's first phase.
lecture_constraints_other_courses(lecs, imap) ==
    UNION {{<<all[i].course, all[i].index>> :
                i \in {n \in 1 .. Len(all) : \E l \in 1 .. Len(lecs) :
                           /\ lecs[l].course # all[n].course
                           /\ clash(all[n].s, lecs[l])}} :
           all \in {all_index_sessions(imap)}}

\* chosen[(c1, i1)] == 0 for every index session that clashes with a lecture.
lecture_constraints(lecs, imap) ==
    UNION {{<<all[i].course, all[i].index>> :
                i \in {n \in 1 .. Len(all) : \E l \in 1 .. Len(lecs) : clash(all[n].s, lecs[l])}} :
           all \in {all_index_sessions(imap)}}

\* Variant: pairs of sessions of one course are compared as well.
index_constraints_all_pairs(imap) ==
    UNION {{<<<<all[p[1]].course, all[p[1]].index>>, <<all[p[2]].course, all[p[2]].index>>>> :
                p \in {q \in (1 .. Len(all)) \X (1 .. Len(all)) :
                           /\ q[1] < q[2]
                           /\ clash(all[q[1]].s, all[q[2]].s)}} :
           all \in {all_index_sessions(imap)}}

\* Variant: an index session is compared with the next one only.
index_constraints_adjacent(imap) ==
    UNION {{<<<<all[p[1]].course, all[p[1]].index>>, <<all[p[2]].course, all[p[2]].index>>>> :
                p \in {q \in (1 .. Len(all)) \X (1 .. Len(all)) :
                           /\ q[2] = q[1] + 1
                           /\ all[q[1]].course # all[q[2]].course
                           /\ clash(all[q[1]].s, all[q[2]].s)}} :
           all \in {all_index_sessions(imap)}}

\* Variant: only pairs of sessions of one type are compared.
index_constraints_same_type(imap) ==
    UNION {{<<<<all[p[1]].course, all[p[1]].index>>, <<all[p[2]].course, all[p[2]].index>>>> :
                p \in {q \in (1 .. Len(all)) \X (1 .. Len(all)) :
                           /\ q[1] < q[2]
                           /\ all[q[1]].course # all[q[2]].course
                           /\ all[q[1]].s.type = all[q[2]].s.type
                           /\ clash(all[q[1]].s, all[q[2]].s)}} :
           all \in {all_index_sessions(imap)}}

\* chosen[(c1, i1)] + chosen[(c2, i2)] <= 1 for every clashing pair i < j of
\* index sessions of different courses.
index_constraints(imap) ==
    UNION {{<<<<all[p[1]].course, all[p[1]].index>>, <<all[p[2]].course, all[p[2]].index>>>> :
                p \in {q \in (1 .. Len(all)) \X (1 .. Len(all)) :
                           /\ q[1] < q[2]
                           /\ all[q[1]].course # all[q[2]].course
                           /\ clash(all[q[1]].s, all[q[2]].s)}} :
           all \in {all_index_sessions(imap)}}

\* Variant: only tutorials count towards a campus day.
day_sessions_tut_only(imap, d) ==
    {KeyAt(imap, k) : k \in {n \in 1 .. Len(imap) :
        \E j \in 1 .. Len(imap[n].sessions) :
            /\ imap[n].sessions[j].day = d
            /\ imap[n].sessions[j].type = "TUT"}}

\* Variant: sessions of every type count towards a campus day.
day_sessions_any_type(imap, d) ==
    {KeyAt(imap, k) : k \in {n \in 1 .. Len(imap) :
        \E j \in 1 .. Len(imap[n].sessions) : imap[n].sessions[j].day = d}}

day_sessions(imap, d) ==
    {KeyAt(imap, k) : k \in {n \in 1 .. Len(imap) :
        \E j \in 1 .. Len(imap[n].sessions) :
            /\ imap[n].sessions[j].day = d
            /\ (imap[n].sessions[j].type = "TUT" \/ imap[n].sessions[j].type = "LAB")}}

build_model(lecs, imap, selected) ==
    [chosen       |-> chosen_keys(imap),
     exactly_one  |-> exactly_one(imap, selected),
     forbidden    |-> lecture_constraints(lecs, imap),
     mutex        |-> index_constraints(imap),
     day_sessions |-> [d \in Days |-> day_sessions(imap, d)]]

(***************************************************************************)
(* The CP-SAT solver, by its contract: a solution is a valuation of the    *)
(* decision variables and the campus-day indicators that satisfies every   *)
(* constraint of the model.                                                *)
(***************************************************************************)
Ones(x, ks) == Cardinality({k \in ks : x[k] = 1})

MaxEquality(cd, x, ks) == cd = (IF \E k \in ks : x[k] = 1 THEN 1 ELSE 0)

ChoiceOK(m, x) ==
    /\ \A e \in m.exactly_one : Ones(x, e) = 1
    /\ \A k \in m.forbidden : x[k] = 0
    /\ \A p \in m.mutex : x[p[1]] + x[p[2]] <= 1

CampusOK(m, x, cd) ==
    \A d \in Days :
        IF m.day_sessions[d] # {}
        THEN MaxEquality(cd[d], x, m.day_sessions[d])
        ELSE cd[d] = 0

Solutions(m) ==
    UNION {{[chosen |-> x, campus_day |-> cd] :
                cd \in {c \in [Days -> {0, 1}] : CampusOK(m, x, c)}} :
           x \in {y \in [m.chosen -> {0, 1}] : ChoiceOK(m, y)}}

\* Variant: only Monday enters the objective.
Objective_monday_only(v) == v.campus_day[0]

Objective(v) == Cardinality({d \in Days : v.campus_day[d] = 1})

\* Variant: no objective, any solution is returned as optimal.
AnySolutions(m) == Solutions(m)

OptimalSolutions(m) ==
    UNION {{v \in S : \A w \in S : Objective(v) <= Objective(w)} : S \in {Solutions(m)}}

(***************************************************************************)
(* analyze_infeasibility: the first clashing pair in the nested scan       *)
(* order, as the message's parts.  A candidate is the tuple of the loop    *)
(* positions; the first hit is the lexicographically least one.            *)
(***************************************************************************)
RECURSIVE LongestOption(_)
LongestOption(imap) ==
    IF imap = <<>> THEN 0
    ELSE LET n == Len(Head(imap).sessions)
             r == LongestOption(Tail(imap))
         IN IF n > r THEN n ELSE r

RECURSIVE LexLess(_, _)
LexLess(p, q) ==
    IF p = <<>> THEN FALSE
    ELSE IF Head(p) # Head(q) THEN Head(p) < Head(q)
    ELSE LexLess(Tail(p), Tail(q))

\* Variant: the scan keeps the last hit instead of returning at the first.
First_keeps_last(hits) == CHOOSE h \in hits : \A g \in hits : g = h \/ LexLess(g, h)

First(hits) == CHOOSE h \in hits : \A g \in hits : g = h \/ LexLess(h, g)

\* <<course position, lecture position, other course position, option position,
\*   session position>>
lecture_hits(lecs, imap, selected) ==
    {h \in (1 .. Len(selected)) \X (1 .. Len(lecs)) \X (1 .. Len(selected))
             \X (1 .. Len(imap)) \X (1 .. LongestOption(imap)) :
        /\ lecs[h[2]].course = selected[h[1]]
        /\ selected[h[3]] # selected[h[1]]
        /\ imap[h[4]].course = selected[h[3]]
        /\ h[5] <= Len(imap[h[4]].sessions)
        /\ clash(lecs[h[2]], imap[h[4]].sessions[h[5]])}

\* <<c1 position, c2 position, option of c1, option of c2, session of the
\*   first, session of the second>>
index_hits(imap, selected) ==
    {h \in (1 .. Len(selected)) \X (1 .. Len(selected)) \X (1 .. Len(imap))
             \X (1 .. Len(imap)) \X (1 .. LongestOption(imap)) \X (1 .. LongestOption(imap)) :
        /\ h[1] < h[2]
        /\ imap[h[3]].course = selected[h[1]]
        /\ imap[h[4]].course = selected[h[2]]
        /\ h[5] <= Len(imap[h[3]].sessions)
        /\ h[6] <= Len(imap[h[4]].sessions)
        /\ clash(imap[h[3]].sessions[h[5]], imap[h[4]].sessions[h[6]])}

\* Variant: the index phase is consulted before the lecture phase.
first_conflict_index_phase_first(lh, ih, imap, selected) ==
    IF ih # {}
    THEN LET h == First(ih)
         IN [kind |-> "index", c1 |-> selected[h[1]], c2 |-> selected[h[2]],
             type |-> "", idx1 |-> imap[h[3]].index, idx2 |-> imap[h[4]].index]
    ELSE IF lh # {}
    THEN LET h == First(lh)
         IN [kind |-> "lecture", c1 |-> selected[h[1]], c2 |-> selected[h[3]],
             type |-> imap[h[4]].sessions[h[5]].type, idx1 |-> 0,
             idx2 |-> imap[h[4]].index]
    ELSE [kind |-> "generic", c1 |-> "", c2 |-> "", type |-> "", idx1 |-> 0, idx2 |-> 0]

first_conflict(lh, ih, imap, selected) ==
    IF lh # {}
    THEN LET h == First(lh)
         IN [kind |-> "lecture", c1 |-> selected[h[1]], c2 |-> selected[h[3]],
             type |-> imap[h[4]].sessions[h[5]].type, idx1 |-> 0,
             idx2 |-> imap[h[4]].index]
    ELSE IF ih # {}
    THEN LET h == First(ih)
         IN [kind |-> "index", c1 |-> selected[h[1]], c2 |-> selected[h[2]],
             type |-> "", idx1 |-> imap[h[3]].index, idx2 |-> imap[h[4]].index]
    ELSE [kind |-> "generic", c1 |-> "", c2 |-> "", type |-> "", idx1 |-> 0, idx2 |-> 0]

analyze_infeasibility(lecs, imap, selected) ==
    CHOOSE msg \in {first_conflict(lh, ih, imap, selected) :
                        lh \in {lecture_hits(lecs, imap, selected)},
                        ih \in {index_hits(imap, selected)}} : TRUE

(***************************************************************************)
(* solve: what the wrapper extracts from the solver's valuation.           *)
(***************************************************************************)
chosen_indexes(imap, x) ==
    LET on == {k \in 1 .. Len(imap) : x[KeyAt(imap, k)] = 1}
    IN [c \in {imap[k].course : k \in on} |->
            imap[CHOOSE k \in on : /\ imap[k].course = c
                                   /\ \A n \in on : imap[n].course = c => n <= k].index]

RECURSIVE index_timetable(_, _)
index_timetable(imap, x) ==
    IF imap = <<>> THEN <<>>
    ELSE (IF x[<<Head(imap).course, Head(imap).index>>] = 1
          THEN [j \in 1 .. Len(Head(imap).sessions) |->
                    [course |-> Head(imap).course,
                     type   |-> Head(imap).sessions[j].type,
                     day    |-> Head(imap).sessions[j].day,
                     start  |-> Head(imap).sessions[j].start,
                     end    |-> Head(imap).sessions[j].end,
                     weeks  |-> Head(imap).sessions[j].weeks]]
          ELSE <<>>)
         \o index_timetable(Tail(imap), x)

timetable(lecs, imap, x) == index_timetable(imap, x) \o lecs

campus_days(v) == Cardinality({d \in Days : v.campus_day[d] = 1})

(***************************************************************************)
(* Inputs.  Times are minutes on a short clock.  An index session of the   *)
(* solve specifications occupies Slot; a lecture either overlaps it partly *)
(* or starts exactly when it ends.                                         *)
(***************************************************************************)
Courses == {"A", "B"}
InputDays == {0, 1}
Slot == <<1, 3>>
LectureSlots == {<<0, 2>>, <<3, 4>>}

\* Spec: index sessions of one weekday whose types and week patterns differ.
IndexSessions ==
    {[type |-> t, day |-> 0, start |-> Slot[1], end |-> Slot[2], weeks |-> w] :
        t \in {"TUT", "LAB"}, w \in {ODD_WEEKS, EVEN_WEEKS}}

\* SpecBundle: index sessions of every week whose weekdays differ, and of a
\* type that counts for a campus day or of one that does not.
BundleSessions ==
    {[type |-> t, day |-> d, start |-> Slot[1], end |-> Slot[2], weeks |-> ALL_WEEKS] :
        t \in {"LAB", "LEC"}, d \in InputDays}

\* load_lectures gives every lecture the full week set.
LectureSessions ==
    {[course |-> c, type |-> "LEC", day |-> d, start |-> i[1], end |-> i[2],
      weeks |-> ALL_WEEKS] : c \in Courses, d \in InputDays, i \in LectureSlots}

\* SpecRanked: tutorials of every week in one slot, on either weekday, and no
\* lectures.
RankedSessions ==
    [type : {"TUT"}, day : InputDays, start : {Slot[1]}, end : {Slot[2]},
     weeks : {ALL_WEEKS}]

\* SpecConflict: the two sessions handed to the conflict evaluator.
ConflictSessions ==
    [type : {"LEC", "TUT", "LAB"}, day : InputDays, start : 0 .. MaxTime,
     end : 0 .. MaxTime, weeks : {ALL_WEEKS, ODD_WEEKS, EVEN_WEEKS, {}}]

SeqsUpTo(S, n) == UNION {[1 .. k -> S] : k \in 0 .. n}

SeqsFromTo(S, lo, hi) == UNION {[1 .. k -> S] : k \in lo .. hi}

NoDuplicates(q) == \A i, j \in 1 .. Len(q) : i # j => q[i] # q[j]

RECURSIVE SumSeq(_)
SumSeq(q) == IF q = <<>> THEN 0 ELSE Head(q) + SumSeq(Tail(q))

\* The session counts of the options, one per key, in insertion order.
Shapes(per) == {sh \in SeqsUpTo(1 .. per, MaxSessions) : SumSeq(sh) <= MaxSessions}

\* The index map whose k-th key is (cs[k], k) and holds the next sh[k]
\* sessions of flat.
Assemble(cs, sh, flat) ==
    [k \in 1 .. Len(sh) |->
        [course   |-> cs[k],
         index    |-> k,
         sessions |-> SubSeq(flat, SumSeq(SubSeq(sh, 1, k - 1)) + 1,
                                   SumSeq(SubSeq(sh, 1, k)))]]

\* The courses are interchangeable, so the first key inserted is one of "A".
CoursePatterns(n) == {cs \in [1 .. n -> Courses] : n > 0 => cs[1] = "A"}

Selections == {q \in SeqsFromTo(Courses, 1, Cardinality(Courses)) : NoDuplicates(q)}

NoModel == build_model(<<>>, <<>>, <<>>)
NoSolution == [chosen |-> <<>>, campus_day |-> [d \in Days |-> 0]]
NoResult == [success |-> FALSE, pending |-> TRUE]
NoSession == [type |-> "", day |-> 0, start |-> 0, end |-> 0, weeks |-> {}]
NoOut == [applied |-> FALSE]
NoPrevious == [called |-> FALSE]
NoCollector == [solutions |-> <<>>, solution_count |-> 0, stopped |-> FALSE]

\* Lectures and index sessions together number at most MaxSessions.
InitSolve(sessions, per) ==
    /\ \E sh \in Shapes(per), l \in 0 .. MaxLectures :
         /\ SumSeq(sh) + l <= MaxSessions
         /\ lectures \in [1 .. l -> LectureSessions]
         /\ \E cs \in CoursePatterns(Len(sh)), flat \in [1 .. SumSeq(sh) -> sessions] :
              index_map = Assemble(cs, sh, flat)
    /\ selected_courses \in Selections
    /\ pc = "start"
    /\ model = NoModel
    /\ status = "NONE"
    /\ solution = NoSolution
    /\ result = NoResult
    /\ sa = NoSession
    /\ sb = NoSession
    /\ out = NoOut
    /\ collector = NoCollector
    /\ previous = NoPrevious
    /\ rows = <<>>
    /\ week_pattern = "all"

Init == InitSolve(IndexSessions, MaxPerOption) /\ num_solutions = 0

InitBundle == InitSolve(BundleSessions, MaxPerOption) /\ num_solutions = 0

InitConflict ==
    /\ lectures = <<>>
    /\ index_map = <<>>
    /\ selected_courses = <<>>
    /\ pc = "conflict"
    /\ model = NoModel
    /\ status = "NONE"
    /\ solution = NoSolution
    /\ result = NoResult
    /\ sa \in ConflictSessions
    /\ sb \in ConflictSessions
    /\ out = NoOut
    /\ num_solutions = 0
    /\ collector = NoCollector
    /\ previous = NoPrevious
    /\ rows = <<>>
    /\ week_pattern = "all"

(***************************************************************************)
(* solve(lectures, index_map, selected_courses): the model is built, then  *)
(* one action per outcome of solver.Solve(model) finishes the call.        *)
(***************************************************************************)
\* Variant: the analyzer is not consulted, the generic message is returned.
failure_generic(lecs, imap, selected) ==
    [success |-> FALSE, error |-> first_conflict({}, {}, imap, selected)]

failure(lecs, imap, selected) ==
    [success |-> FALSE, error |-> analyze_infeasibility(lecs, imap, selected)]

success(lecs, imap, v) ==
    [success     |-> TRUE,
     indexes     |-> chosen_indexes(imap, v.chosen),
     timetable   |-> timetable(lecs, imap, v.chosen),
     campus_days |-> campus_days(v)]

solve(lecs, imap, selected, st, v) ==
    IF st # "OPTIMAL" /\ st # "FEASIBLE"
    THEN failure(lecs, imap, selected)
    ELSE success(lecs, imap, v)

\* model, chosen, campus_day = build_model(lectures, index_map, selected_courses)
BuildModel ==
    /\ pc = "start"
    /\ model' = build_model(lectures, index_map, selected_courses)
    /\ pc' = "built"
    /\ UNCHANGED <<lectures, index_map, selected_courses, status, solution, result,
                   sa, sb, out, num_solutions, collector, previous, rows, week_pattern>>

\* result = solver.Solve(model) and the rest of solve.
Solve(st, v) ==
    /\ status' = st
    /\ solution' = v
    /\ result' = solve(lectures, index_map, selected_courses, st, v)
    /\ pc' = "done"
    /\ UNCHANGED <<lectures, index_map, selected_courses, model, sa, sb, out,
                   num_solutions, collector, previous, rows, week_pattern>>

\* The search ends within the budget with a proof of optimality.
SolveOptimal ==
    /\ pc = "built"
    /\ \E v \in OptimalSolutions(model) : Solve("OPTIMAL", v)

\* The search ends within the budget with a proof that no solution exists.
SolveInfeasible ==
    /\ pc = "built"
    /\ Solutions(model) = {}
    /\ Solve("INFEASIBLE", NoSolution)

\* The 10 second budget runs out with some solution in hand.
SolveFeasible ==
    /\ pc = "built"
    /\ \E v \in Solutions(model) : Solve("FEASIBLE", v)

\* The 10 second budget runs out with no solution found.
SolveUnknown ==
    /\ pc = "built"
    /\ Solve("UNKNOWN", NoSolution)

Next ==
    \/ BuildModel
    \/ SolveOptimal
    \/ SolveInfeasible
    \/ SolveFeasible
    \/ SolveUnknown

Spec == Init /\ [][Next]_vars

SpecBundle == InitBundle /\ [][Next]_vars

(***************************************************************************)
(* solve called a second time on the same lectures, index_map and          *)
(* selected_courses, as when the Optimize button of the app is pressed     *)
(* again: the first outcome is kept aside for comparison.                  *)
(***************************************************************************)
InitTwice == InitSolve(RankedSessions, MaxPerOption) /\ num_solutions = 0

SolveAgain ==
    /\ pc = "done"
    /\ ~previous.called
    /\ previous' = [called |-> TRUE, status |-> status, result |-> result]
    /\ pc' = "start"
    /\ model' = NoModel
    /\ status' = "NONE"
    /\ solution' = NoSolution
    /\ result' = NoResult
    /\ UNCHANGED <<lectures, index_map, selected_courses, sa, sb, out, num_solutions,
                   collector, rows, week_pattern>>

NextTwice ==
    \/ BuildModel
    \/ SolveOptimal
    \/ SolveInfeasible
    \/ SolveFeasible
    \/ SolveUnknown
    \/ SolveAgain

SpecTwice == InitTwice /\ [][NextTwice]_vars

(***************************************************************************)
(* The conflict evaluator applied to one pair of sessions.                 *)
(***************************************************************************)
EvalConflict ==
    /\ pc = "conflict"
    /\ out' = [applied |-> TRUE,
               overlap |-> sessions_overlap(sa, sb),
               labs    |-> labs_conflict(sa, sb),
               strict  |-> strict_conflict(sa, sb),
               clash   |-> clash(sa, sb),
               strict_swapped |-> strict_conflict(sb, sa),
               clash_swapped  |-> clash(sb, sa)]
    /\ pc' = "evaluated"
    /\ UNCHANGED <<lectures, index_map, selected_courses, model, status, solution, result,
                   sa, sb, num_solutions, collector, previous, rows, week_pattern>>

NextConflict == EvalConflict

SpecConflict == InitConflict /\ [][NextConflict]_vars

(***************************************************************************)
(* load_indexes(filepath, selected_courses, week_pattern) and the parsers  *)
(* it calls.  A cell's text is given by its shape: a time is "h:m", a run  *)
(* of digits, or other text; a remark is blank or a comma-separated list   *)
(* of tokens, each a number or not.  A raised exception is the result      *)
(* [ok |-> FALSE].                                                         *)
(***************************************************************************)
Raised == [ok |-> FALSE]

Value(n) == [ok |-> TRUE, value |-> n]

\* int() of a run of decimal digits.
RECURSIVE Number(_)
Number(ds) ==
    IF ds = <<>> THEN 0 ELSE 10 * Number(SubSeq(ds, 1, Len(ds) - 1)) + ds[Len(ds)]

time_to_minutes(t) ==
    IF t.form = "h:m" THEN Value(t.h * 60 + t.m)
    ELSE IF t.form = "digits"
    THEN (IF Len(t.digits) <= 2 THEN Value(Number(t.digits) * 60)
          ELSE IF Len(t.digits) = 3
          THEN Value(t.digits[1] * 60 + Number(SubSeq(t.digits, 2, 3)))
          ELSE IF Len(t.digits) = 4
          THEN Value(Number(SubSeq(t.digits, 1, 2)) * 60 + Number(SubSeq(t.digits, 3, 4)))
          ELSE Raised)
    ELSE Raised

day_to_index(day) ==
    IF day \in {"Mon", "Monday"} THEN Value(0)
    ELSE IF day \in {"Tue", "Tuesday"} THEN Value(1)
    ELSE IF day \in {"Wed", "Wednesday"} THEN Value(2)
    ELSE IF day \in {"Thu", "Thursday"} THEN Value(3)
    ELSE IF day \in {"Fri", "Friday"} THEN Value(4)
    ELSE Raised

default_weeks(pattern) ==
    IF pattern = "even" THEN EVEN_WEEKS
    ELSE IF pattern = "odd" THEN ODD_WEEKS
    ELSE ALL_WEEKS

parse_weeks(remark, pattern) ==
    IF remark.blank THEN default_weeks(pattern)
    ELSE IF \E i \in 1 .. Len(remark.tokens) : ~remark.tokens[i].num
    THEN default_weeks(pattern)
    ELSE LET parsed_weeks == {remark.tokens[i].n : i \in 1 .. Len(remark.tokens)}
         IN  IF pattern = "even" THEN parsed_weeks \cap EVEN_WEEKS
             ELSE IF pattern = "odd" THEN parsed_weeks \cap ODD_WEEKS
             ELSE parsed_weeks

\* The position of key (course, idx) in the map, 0 when it is not a key.
KeyPosition(imap, course, idx) ==
    IF \E k \in 1 .. Len(imap) : imap[k].course = course /\ imap[k].index = idx
    THEN CHOOSE k \in 1 .. Len(imap) : imap[k].course = course /\ imap[k].index = idx
    ELSE 0

\* The body of the loop of load_indexes for one row.
load_row(imap, row, selected, pattern) ==
    IF \A n \in 1 .. Len(selected) : selected[n] # row.course THEN imap
    ELSE LET keyed == IF KeyPosition(imap, row.course, row.index) = 0
                      THEN Append(imap, [course |-> row.course, index |-> row.index,
                                         sessions |-> <<>>])
                      ELSE imap
             k     == KeyPosition(keyed, row.course, row.index)
             day   == day_to_index(row.day)
             start == time_to_minutes(row.start)
             end   == time_to_minutes(row.end)
         IN  IF day.ok /\ start.ok /\ end.ok
             THEN [keyed EXCEPT ![k].sessions =
                      Append(@, [course |-> row.course, index |-> row.index,
                                 type   |-> row.type,
                                 day    |-> day.value,
                                 start  |-> start.value,
                                 end    |-> end.value,
                                 weeks  |-> parse_weeks(row.remark, pattern)])]
             ELSE keyed

RECURSIVE load_indexes(_, _, _)
load_indexes(table, selected, pattern) ==
    IF table = <<>> THEN <<>>
    ELSE load_row(load_indexes(SubSeq(table, 1, Len(table) - 1), selected, pattern),
                  table[Len(table)], selected, pattern)

\* The cells of the index sheet that are explored.
DayTexts == {"Mon", "Sat"}

TimeTexts ==
    {[form |-> "h:m", h |-> 9, m |-> 0],
     [form |-> "digits", digits |-> <<9, 3, 0>>],
     [form |-> "text"]}

EndText == [form |-> "digits", digits |-> <<1, 1, 0, 0>>]

Remarks ==
    {[blank |-> TRUE],
     [blank |-> FALSE, tokens |-> <<[num |-> TRUE, n |-> 1], [num |-> TRUE, n |-> 3]>>],
     [blank |-> FALSE, tokens |-> <<[num |-> TRUE, n |-> 2], [num |-> TRUE, n |-> 14]>>],
     [blank |-> FALSE, tokens |-> <<[num |-> TRUE, n |-> 2], [num |-> FALSE]>>]}

RowKeys == {<<"A", 1>>, <<"A", 2>>, <<"B", 1>>}

Rows ==
    {[course |-> key[1], index |-> key[2], type |-> "TUT", day |-> d, start |-> t,
      end |-> EndText, remark |-> r] :
        key \in RowKeys, d \in DayTexts, t \in TimeTexts, r \in Remarks}

InitLoad ==
    /\ rows \in SeqsUpTo(Rows, MaxRows)
    /\ week_pattern \in {"all", "odd", "even"}
    /\ selected_courses \in {<<"A">>, <<"B", "A">>}
    /\ lectures = <<>>
    /\ index_map = <<>>
    /\ pc = "load"
    /\ model = NoModel
    /\ status = "NONE"
    /\ solution = NoSolution
    /\ result = NoResult
    /\ sa = NoSession
    /\ sb = NoSession
    /\ out = NoOut
    /\ num_solutions = 0
    /\ collector = NoCollector
    /\ previous = NoPrevious

\* index_map = load_indexes("Table2.xlsx", selected, week_pattern)
LoadIndexes ==
    /\ pc = "load"
    /\ index_map' = load_indexes(rows, selected_courses, week_pattern)
    /\ pc' = "loaded"
    /\ UNCHANGED <<lectures, selected_courses, model, status, solution, result, sa, sb,
                   out, num_solutions, collector, previous, rows, week_pattern>>

NextLoad == LoadIndexes

SpecLoad == InitLoad /\ [][NextLoad]_vars

(***************************************************************************)
(* planner.py, solve(lectures, index_map, selected_courses, num_solutions): *)
(* ranked enumeration.  build_model is the same code as in solver.py.  The *)
(* solver calls the collector once per solution it reports; which          *)
(* solutions it reports, and in which order, is the solver's choice, and   *)
(* it reports none twice.                                                  *)
(***************************************************************************)
\* index_map as load_indexes(path, selected_courses) gives it to solve: with
\* rows of selected courses only.
InitRanked ==
    /\ InitSolve(RankedSessions, MaxPerOption)
    /\ lectures = <<>>
    /\ \A k \in 1 .. Len(index_map) :
         \E n \in 1 .. Len(selected_courses) : selected_courses[n] = index_map[k].course
    /\ num_solutions \in 1 .. MaxSolutions

\* SolutionCollector.on_solution_callback, the storing branch.
store(c, v) ==
    [solutions      |-> Append(c.solutions,
                               [chosen |-> v.chosen, campus_days |-> campus_days(v)]),
     solution_count |-> c.solution_count + 1,
     stopped        |-> c.stopped]

\* SolutionCollector.on_solution_callback, the StopSearch branch.
stop_search(c) ==
    [solutions |-> c.solutions, solution_count |-> c.solution_count, stopped |-> TRUE]

\* Variant: an entry goes before the entries of the same campus_days.
insert_before_ties(q, e) ==
    LET n == Cardinality({i \in 1 .. Len(q) : q[i].campus_days < e.campus_days})
    IN  SubSeq(q, 1, n) \o <<e>> \o SubSeq(q, n + 1, Len(q))

\* One step of the stable sort: e goes after every entry of a key not greater.
insert_sorted(q, e) ==
    LET n == Cardinality({i \in 1 .. Len(q) : q[i].campus_days <= e.campus_days})
    IN  SubSeq(q, 1, n) \o <<e>> \o SubSeq(q, n + 1, Len(q))

\* solutions.sort(key=lambda s: s["campus_days"])
RECURSIVE sort_by_campus_days(_)
sort_by_campus_days(q) ==
    IF q = <<>> THEN <<>>
    ELSE insert_sorted(sort_by_campus_days(SubSeq(q, 1, Len(q) - 1)), q[Len(q)])

\* solutions[:num_solutions]
slice(q, n) == SubSeq(q, 1, IF n < Len(q) THEN n ELSE Len(q))

\* Variant: the list is filled up to num_solutions with its last entry.
ranked_padded(sols, n) ==
    IF sols = <<>> THEN [none |-> TRUE]
    ELSE [none      |-> FALSE,
          solutions |-> [i \in 1 .. n |->
                            sort_by_campus_days(sols)[IF i < Len(sols) THEN i ELSE Len(sols)]]]

\* What solve returns once the search has ended: None, or the sorted list cut
\* to num_solutions.
ranked(sols, n) ==
    IF sols = <<>> THEN [none |-> TRUE]
    ELSE [none |-> FALSE, solutions |-> slice(sort_by_campus_days(sols), n)]

Delivered == {collector.solutions[i].chosen : i \in 1 .. Len(collector.solutions)}

\* solver.Solve(model, collector) returns with status st; the rest of solve.
Return(st, c) ==
    /\ status' = st
    /\ collector' = c
    /\ result' = ranked(c.solutions, num_solutions)
    /\ pc' = "done"
    /\ UNCHANGED <<lectures, index_map, selected_courses, model, solution, sa, sb, out,
                   num_solutions, previous, rows, week_pattern>>

\* Variant: the collector stores every solution it is given.
CollectSolution_unbounded ==
    /\ pc = "built"
    /\ num_solutions > 0
    /\ Len(collector.solutions) <= MaxSolutions
    /\ \E v \in Solutions(model) :
         /\ v.chosen \notin Delivered
         /\ collector' = store(collector, v)
    /\ UNCHANGED <<lectures, index_map, selected_courses, pc, model, status, solution,
                   result, sa, sb, out, num_solutions, previous, rows, week_pattern>>

\* The solver reports a solution and the collector stores it.
CollectSolution ==
    /\ pc = "built"
    /\ collector.solution_count < num_solutions
    /\ \E v \in Solutions(model) :
         /\ v.chosen \notin Delivered
         /\ collector' = store(collector, v)
    /\ UNCHANGED <<lectures, index_map, selected_courses, pc, model, status, solution,
                   result, sa, sb, out, num_solutions, previous, rows, week_pattern>>

\* The solver reports one more solution than asked for: the collector stops
\* the search without storing it.
StopSearch ==
    /\ pc = "built"
    /\ collector.solution_count >= num_solutions
    /\ \E v \in Solutions(model) : v.chosen \notin Delivered
    /\ Return("FEASIBLE", stop_search(collector))

\* The search runs to its end: there is no solution, or a best one has been
\* reported.
SearchCompleted ==
    /\ pc = "built"
    /\ \E S \in {Solutions(model)} :
         \/ S = {} /\ Return("INFEASIBLE", collector)
         \/ /\ \E v \in S : /\ v.chosen \in Delivered
                             /\ \A w \in S : Objective(v) <= Objective(w)
            /\ Return("OPTIMAL", collector)

\* The 10 second budget runs out.
BudgetExpired ==
    /\ pc = "built"
    /\ Return(IF collector.solution_count = 0 THEN "UNKNOWN" ELSE "FEASIBLE", collector)

NextRanked ==
    \/ BuildModel
    \/ CollectSolution
    \/ StopSearch
    \/ SearchCompleted
    \/ BudgetExpired

SpecRanked == InitRanked /\ [][NextRanked]_vars

(***************************************************************************)
(* Vocabulary of the properties, in terms of the inputs and of the         *)
(* returned result.                                                        *)
(***************************************************************************)
Done == pc = "done"

Succeeded == pc = "done" /\ result.success

WithinBudget == status = "OPTIMAL" \/ status = "INFEASIBLE"

\* Two sessions clash: they conflict and their active weeks intersect.
Clashes(a, b) == strict_conflict(a, b) /\ (a.weeks \cap b.weeks) # {}

TimesOverlap(a, b) == a.day = b.day /\ a.start < b.end /\ b.start < a.end

OptionIds == 1 .. Len(index_map)

OptionsOf(c) == {k \in OptionIds : index_map[k].course = c}

SessionsOf(k) == {index_map[k].sessions[j] : j \in 1 .. Len(index_map[k].sessions)}

Lectures == {lectures[l] : l \in 1 .. Len(lectures)}

Selected == {selected_courses[n] : n \in 1 .. Len(selected_courses)}

ClashesWithLecture(k) == \E s \in SessionsOf(k), lec \in Lectures : Clashes(s, lec)

OptionsClash(k1, k2) == \E s1 \in SessionsOf(k1), s2 \in SessionsOf(k2) : Clashes(s1, s2)

\* The options the result names: course -> index id.
Named == {k \in OptionIds : /\ index_map[k].course \in DOMAIN result.indexes
                            /\ result.indexes[index_map[k].course] = index_map[k].index}

\* The index sessions of the returned timetable (the lectures follow them).
IndexEntries ==
    {result.timetable[n] : n \in 1 .. (Len(result.timetable) - Len(lectures))}

\* A set of options that meets the exactly-one, lecture-forbidding and
\* mutual-exclusion requirements.
Admissible(X) ==
    /\ \A c \in Selected : OptionsOf(c) # {} => Cardinality(X \cap OptionsOf(c)) = 1
    /\ \A k \in X : ~ClashesWithLecture(k)
    /\ \A k1, k2 \in X : index_map[k1].course # index_map[k2].course => ~OptionsClash(k1, k2)

AdmissibleSets == {X \in SUBSET OptionIds : Admissible(X)}

CampusDaysOf(X) ==
    Cardinality({d \in Days : \E k \in X : \E s \in SessionsOf(k) :
                    s.day = d /\ s.type \in {"TUT", "LAB"}})

\* C1: in every successful result no option the result names, and no index
\* session of the returned timetable, clashes with any lecture of `lectures`,
\* the lectures of the option's own course included.
C1_NoLectureClash ==
    Succeeded =>
        /\ \A k \in Named : ~ClashesWithLecture(k)
        /\ \A e \in IndexEntries : \A lec \in Lectures : ~Clashes(e, lec)

\* A course is given an option although another option of it clashes with the
\* course's own lecture.
C1_Witness ==
    /\ Succeeded
    /\ \E k1, k2 \in OptionIds :
         /\ index_map[k1].course = index_map[k2].course
         /\ index_map[k1].course \in Selected
         /\ \E s \in SessionsOf(k1), lec \in Lectures :
              lec.course = index_map[k1].course /\ Clashes(s, lec)
         /\ k2 \in Named

\* C2: in every successful result no two options of different courses, named
\* by the result or present in its timetable, have clashing sessions.
C2_NoIndexClash ==
    Succeeded =>
        /\ \A k1, k2 \in Named :
             index_map[k1].course # index_map[k2].course => ~OptionsClash(k1, k2)
        /\ \A e1, e2 \in IndexEntries : e1.course # e2.course => ~Clashes(e1, e2)

\* Two selected courses are both served although one pair of their options
\* clashes, and the two options chosen overlap in time in disjoint weeks.
C2_Witness ==
    /\ Succeeded
    /\ \E k1, k2, k3 \in OptionIds :
         /\ index_map[k1].course # index_map[k2].course
         /\ index_map[k3].course = index_map[k1].course
         /\ {index_map[k1].course, index_map[k2].course} \subseteq Selected
         /\ OptionsClash(k3, k2)
         /\ {k1, k2} \subseteq Named
         /\ \E s1 \in SessionsOf(k1), s2 \in SessionsOf(k2) :
              TimesOverlap(s1, s2) /\ (s1.weeks \cap s2.weeks) = {}

KeysOf(c) == {KeyAt(index_map, k) : k \in OptionsOf(c)}

ChosenOf(c) == {k \in OptionsOf(c) : solution.chosen[KeyAt(index_map, k)] = 1}

Unserved == {c \in Selected : OptionsOf(c) = {}}

C4_MinimumCampusDays ==
    (Done /\ status = "OPTIMAL") =>
        /\ result.success
        /\ \E X \in AdmissibleSets : CampusDaysOf(X) = result.campus_days
        /\ \A X \in AdmissibleSets : result.campus_days <= CampusDaysOf(X)

\* The optimum is returned where another admissible choice costs a day more.
C4_Witness ==
    /\ Done /\ status = "OPTIMAL"
    /\ result.campus_days = 1
    /\ \E X \in AdmissibleSets : CampusDaysOf(X) = 2
    /\ \E c \in Selected : Cardinality(OptionsOf(c)) >= 2

C7_FailureIffInfeasible ==
    (Done /\ WithinBudget) =>
        /\ ~result.success <=> AdmissibleSets = {}
        /\ ~result.success =>
             result.error = analyze_infeasibility(lectures, index_map, selected_courses)

\* An infeasible selection fails with a message that names two options.
C7_Witness ==
    /\ Done /\ status = "INFEASIBLE"
    /\ ~result.success
    /\ result.error.kind = "index"
    /\ AdmissibleSets = {}

BothLabs == sa.type = "LAB" /\ sb.type = "LAB"

WeeksMeet == (sa.weeks \cap sb.weeks) # {}

\* C8: sessions_overlap is true exactly when the two sessions share a weekday
\* and their half-open intervals intersect (touching sessions do not overlap);
\* sessions on different weekdays are never a strict_conflict.
C8_HalfOpenOverlap ==
    out.applied =>
        /\ out.overlap <=> TimesOverlap(sa, sb)
        /\ sa.day # sb.day => ~out.strict

\* Two sessions of one weekday, one ending when the other starts.
C8_Witness ==
    /\ out.applied
    /\ sa.day = sb.day
    /\ sa.start < sa.end /\ sa.end = sb.start /\ sb.start < sb.end
    /\ ~out.overlap

\* C9: for two LAB sessions that overlap in time, strict_conflict is true
\* exactly when their weeks intersect, and with disjoint weeks the pair never
\* passes the guard under which build_model adds a mutual exclusion.
C9_LabWeekLeniency ==
    (out.applied /\ BothLabs /\ TimesOverlap(sa, sb)) =>
        /\ out.strict <=> WeeksMeet
        /\ ~WeeksMeet => ~out.clash

\* Two labs in the same slot, one in odd and one in even weeks.
C9_Witness ==
    /\ out.applied /\ BothLabs /\ TimesOverlap(sa, sb)
    /\ sa.weeks = ODD_WEEKS /\ sb.weeks = EVEN_WEEKS
    /\ ~out.strict

\* C10: for two sessions that overlap in time and are not both LAB,
\* strict_conflict is true whatever their weeks.
C10_StrictForOtherPairs ==
    (out.applied /\ ~BothLabs /\ TimesOverlap(sa, sb)) => out.strict

\* A tutorial in odd weeks and a lab in even weeks, overlapping in time.
C10_Witness ==
    /\ out.applied /\ TimesOverlap(sa, sb)
    /\ sa.type = "TUT" /\ sb.type = "LAB"
    /\ sa.weeks = ODD_WEEKS /\ sb.weeks = EVEN_WEEKS
    /\ out.strict

Built == pc \in {"built", "done"}

Forbidden(k) == KeyAt(index_map, k) \in model.forbidden

Mutex(k1, k2) ==
    \/ <<KeyAt(index_map, k1), KeyAt(index_map, k2)>> \in model.mutex
    \/ <<KeyAt(index_map, k2), KeyAt(index_map, k1)>> \in model.mutex

\* C11: over the pairs build_model compares (an index session with a lecture,
\* two index sessions of different courses) a constraint is added exactly when
\* strict_conflict holds and the weeks intersect: an option is forbidden iff
\* one of its sessions clashes so with a lecture, and two options of different
\* courses exclude each other iff two of their sessions clash so.
C11_ConstraintIffClash ==
    Built =>
        /\ \A k \in OptionIds : Forbidden(k) <=> ClashesWithLecture(k)
        /\ \A k1, k2 \in OptionIds :
             index_map[k1].course # index_map[k2].course =>
                 (Mutex(k1, k2) <=> OptionsClash(k1, k2))

\* Two options of different courses, a tutorial in odd weeks and a tutorial at
\* the same time in even weeks, are chosen together.
C11_Witness ==
    /\ Succeeded
    /\ \E k1, k2 \in Named :
         /\ index_map[k1].course # index_map[k2].course
         /\ ~Mutex(k1, k2)
         /\ \E s1 \in SessionsOf(k1), s2 \in SessionsOf(k2) :
              /\ s1.type = "TUT" /\ s2.type = "TUT"
              /\ TimesOverlap(s1, s2)
              /\ s1.weeks = ODD_WEEKS /\ s2.weeks = EVEN_WEEKS

\* C12: strict_conflict gives the same answer for (a, b) and (b, a), and so
\* does the combined check of strict_conflict and week intersection.
C12_Symmetric ==
    out.applied =>
        /\ out.strict = out.strict_swapped
        /\ out.clash = out.clash_swapped

\* A lab and a tutorial that differ in start and weeks, in conflict both ways
\* round.
C12_Witness ==
    /\ out.applied
    /\ sa.type = "LAB" /\ sb.type = "TUT"
    /\ sa.start < sb.start /\ sb.start < sa.end
    /\ sa.weeks = ODD_WEEKS /\ sb.weeks = ALL_WEEKS
    /\ out.strict /\ out.strict_swapped
    /\ out.clash /\ out.clash_swapped

\* C13: build_model adds no mutual exclusion between two options of one
\* course, whatever their sessions; every mutual exclusion joins options of
\* two different courses.
C13_NoSameCourseMutex ==
    Built =>
        /\ \A k1, k2 \in OptionIds :
             index_map[k1].course = index_map[k2].course => ~Mutex(k1, k2)
        /\ \A p \in model.mutex : p[1][1] # p[2][1]

\* Two lab options of a selected course in the same slot and the same weeks:
\* no mutual exclusion joins them and one of them is chosen.
C13_Witness ==
    /\ Succeeded
    /\ \E k1, k2 \in OptionIds :
         /\ k1 # k2
         /\ index_map[k1].course = index_map[k2].course
         /\ index_map[k1].course \in Selected
         /\ \E s1 \in SessionsOf(k1), s2 \in SessionsOf(k2) :
              s1.type = "LAB" /\ s2.type = "LAB" /\ Clashes(s1, s2)
         /\ ~Mutex(k1, k2)
         /\ k1 \in Named
         /\ Cardinality(ChosenOf(index_map[k1].course)) = 1

\* Course c is selected, k is its only option, and a session of k clashes with
\* a lecture of c itself.
OwnLectureClash(c, k) ==
    /\ c \in Selected
    /\ OptionsOf(c) = {k}
    /\ \E s \in SessionsOf(k), lec \in Lectures : lec.course = c /\ Clashes(s, lec)

\* C14: when a selected course's only option clashes with that course's own
\* lecture, solve fails and its diagnostic names that course's lecture against
\* its own index: neither the generic message nor another pair.
C14_OwnLectureDiagnostic ==
    (Done /\ \E c \in Courses, k \in OptionIds : OwnLectureClash(c, k)) =>
        /\ ~result.success
        /\ \E c \in Courses, k \in OptionIds :
             /\ OwnLectureClash(c, k)
             /\ result.error.kind = "lecture"
             /\ result.error.c1 = c /\ result.error.c2 = c
             /\ result.error.idx2 = index_map[k].index

SelectedOptions == {k \in OptionIds : index_map[k].course \in Selected}

DaysOf(k) == {s.day : s \in SessionsOf(k)}

\* No lectures, one option per selected course, each made of tutorial or lab
\* sessions, and no weekday shared by two of these options.
DisjointSoleOptions ==
    /\ lectures = <<>>
    /\ \A c \in Selected : Cardinality(OptionsOf(c)) = 1
    /\ \A k \in SelectedOptions : \A s \in SessionsOf(k) : s.type \in {"TUT", "LAB"}
    /\ \A k1, k2 \in SelectedOptions : k1 # k2 => DaysOf(k1) \cap DaysOf(k2) = {}

\* C15: with no lectures, exactly one tutorial/lab option per selected course
\* and these options on pairwise disjoint weekdays, a solve whose search is
\* completed succeeds and campus_days is the number of distinct weekdays the
\* options use.
C15_DisjointDaysScenario ==
    (Done /\ WithinBudget /\ DisjointSoleOptions) =>
        /\ result.success
        /\ result.campus_days = Cardinality(UNION {DaysOf(k) : k \in SelectedOptions})

\* Two selected courses with one single-day option each: two campus days.
C15_Witness ==
    /\ Done /\ WithinBudget /\ DisjointSoleOptions
    /\ Cardinality(Selected) = 2
    /\ \A k \in SelectedOptions : Cardinality(DaysOf(k)) = 1
    /\ result.success
    /\ result.campus_days = 2

\* Ranked enumeration has returned.
Ranked == pc = "done" /\ num_solutions > 0

Listed == result.solutions

\* The place of a listed solution in the order of the callback's deliveries.
DeliveryOf(e) ==
    CHOOSE i \in 1 .. Len(collector.solutions) : collector.solutions[i] = e

\* The search was ended by the collector or by the solver, not by the clock.
NotCutByBudget == collector.stopped \/ status = "OPTIMAL" \/ status = "INFEASIBLE"

\* C16: ranked enumeration with num_solutions = N returns at most N of the
\* delivered solutions, in non-decreasing order of campus_days, and solutions
\* of equal campus_days stay in the order of their delivery.
C16_RankedOrder ==
    (Ranked /\ ~result.none) =>
        /\ Len(Listed) <= num_solutions
        /\ \A i \in 1 .. Len(Listed) :
             \E n \in 1 .. Len(collector.solutions) : collector.solutions[n] = Listed[i]
        /\ \A i, j \in 1 .. Len(Listed) :
             i < j =>
                 /\ Listed[i].campus_days <= Listed[j].campus_days
                 /\ Listed[i].campus_days = Listed[j].campus_days =>
                        DeliveryOf(Listed[i]) < DeliveryOf(Listed[j])

\* Two solutions of equal campus_days are listed as they were delivered.
C16_Witness ==
    /\ Ranked /\ ~result.none
    /\ Len(Listed) = 2
    /\ Listed[1].campus_days = Listed[2].campus_days
    /\ Listed[1].chosen # Listed[2].chosen
    /\ Listed = collector.solutions

\* C17: the first solution of the returned list has the least campus_days of
\* all admissible choices of options.
C17_HeadIsMinimum ==
    (Ranked /\ ~result.none /\ NotCutByBudget) =>
        \A X \in AdmissibleSets : Listed[1].campus_days <= CampusDaysOf(X)

\* The options a listed solution chooses.
AssignmentOf(e) == {k \in OptionIds : e.chosen[KeyAt(index_map, k)] = 1}

\* C18: when exactly one choice of options is admissible and the solver has
\* reported a solution before its budget ran out, the returned list has
\* exactly one element whatever num_solutions is; and no returned list names
\* the same assignment twice.
C18_NoRepeatedSolution ==
    Ranked =>
        /\ (Cardinality(AdmissibleSets) = 1 /\ status # "UNKNOWN") =>
               /\ ~result.none
               /\ Len(Listed) = 1
               /\ AssignmentOf(Listed[1]) \in AdmissibleSets
        /\ ~result.none =>
               \A i, j \in 1 .. Len(Listed) :
                   i # j => AssignmentOf(Listed[i]) # AssignmentOf(Listed[j])

\* One admissible choice, more than one solution asked for, one returned.
C18_Witness ==
    /\ Ranked
    /\ Cardinality(AdmissibleSets) = 1
    /\ Cardinality(OptionIds) >= 2
    /\ num_solutions > 1
    /\ status = "OPTIMAL"
    /\ ~result.none
    /\ Len(Listed) = 1

\* Both calls ended with the search completed.
BothWithinBudget ==
    /\ Done /\ previous.called
    /\ WithinBudget
    /\ previous.status \in {"OPTIMAL", "INFEASIBLE"}

\* C19: two calls of solve on the same inputs, each completing its search,
\* both succeed or both fail, and two successes report the same campus_days,
\* whichever options each of them chose.
C19_SameOutcomeTwice ==
    BothWithinBudget =>
        /\ result.success = previous.result.success
        /\ result.success => result.campus_days = previous.result.campus_days

\* Two successful calls that chose different options.
C19_Witness ==
    /\ BothWithinBudget
    /\ result.success /\ previous.result.success
    /\ result.indexes # previous.result.indexes
    /\ result.campus_days = previous.result.campus_days

\* C20: a call that ends with status FEASIBLE returns its solution as a
\* success, and what it returns differs from what a call that ends with status
\* OPTIMAL returns on the same inputs.
C20_FeasibleDistinguishable ==
    (Done /\ previous.called /\ status = "FEASIBLE" /\ previous.status = "OPTIMAL") =>
        /\ result.success
        /\ result # previous.result

Failed == pc = "done" /\ num_solutions = 0 /\ ~result.success

\* p comes before q in a nested scan whose loops are nested in the order of
\* the tuples' components.
RECURSIVE ScannedBefore(_, _)
ScannedBefore(p, q) ==
    /\ p # <<>>
    /\ \/ Head(p) < Head(q)
       \/ Head(p) = Head(q) /\ ScannedBefore(Tail(p), Tail(q))

\* The candidates of the lecture phase that clash: <<i, l, o, k, j>> for the
\* l-th lecture, being one of the i-th selected course, and the j-th session
\* of the k-th option, being one of the o-th selected course, another course.
LecturePairs ==
    {p \in (1 .. Len(selected_courses)) \X (1 .. Len(lectures))
             \X (1 .. Len(selected_courses)) \X OptionIds \X (1 .. MaxPerOption) :
        /\ lectures[p[2]].course = selected_courses[p[1]]
        /\ selected_courses[p[3]] # selected_courses[p[1]]
        /\ index_map[p[4]].course = selected_courses[p[3]]
        /\ p[5] <= Len(index_map[p[4]].sessions)
        /\ Clashes(lectures[p[2]], index_map[p[4]].sessions[p[5]])}

LectureMessage(p) ==
    /\ result.error.kind = "lecture"
    /\ result.error.c1 = selected_courses[p[1]]
    /\ result.error.c2 = selected_courses[p[3]]
    /\ result.error.type = index_map[p[4]].sessions[p[5]].type
    /\ result.error.idx2 = index_map[p[4]].index

IndexPairs ==
    {p \in (1 .. Len(selected_courses)) \X (1 .. Len(selected_courses))
             \X OptionIds \X OptionIds \X (1 .. MaxPerOption) \X (1 .. MaxPerOption) :
        /\ p[1] < p[2]
        /\ index_map[p[3]].course = selected_courses[p[1]]
        /\ index_map[p[4]].course = selected_courses[p[2]]
        /\ p[5] <= Len(index_map[p[3]].sessions)
        /\ p[6] <= Len(index_map[p[4]].sessions)
        /\ Clashes(index_map[p[3]].sessions[p[5]], index_map[p[4]].sessions[p[6]])}

IndexMessage(p) ==
    /\ result.error.kind = "index"
    /\ result.error.c1 = selected_courses[p[1]]
    /\ result.error.idx1 = index_map[p[3]].index
    /\ result.error.c2 = selected_courses[p[2]]
    /\ result.error.idx2 = index_map[p[4]].index

\* C22: an index-vs-index conflict is reported only when the lecture phase
\* has no clashing pair; it is then the first clashing pair in the order
\* course pairs (c1 before c2 in caller order), options of c1, options of c2,
\* sessions of the first, sessions of the second; and the generic message is
\* returned exactly when neither phase has a clashing pair.
C22_IndexPhaseAfterLecturePhase ==
    Failed =>
        /\ result.error.kind = "index" => LecturePairs = {}
        /\ (LecturePairs = {} /\ IndexPairs # {}) =>
               \E p \in IndexPairs :
                   /\ \A q \in IndexPairs : q = p \/ ScannedBefore(p, q)
                   /\ IndexMessage(p)
        /\ result.error.kind = "generic" <=> (LecturePairs = {} /\ IndexPairs = {})

\* An infeasible selection with two clashing pairs of options that would give
\* different messages; the earlier is named.
C22_Witness ==
    /\ Failed /\ status = "INFEASIBLE"
    /\ LecturePairs = {}
    /\ \E p, q \in IndexPairs :
         /\ ScannedBefore(p, q)
         /\ IndexMessage(p)
         /\ ~IndexMessage(q)

Loaded == pc = "loaded"

\* C23: every session load_indexes places into the index map, whatever the
\* week pattern and the row's remark, has a non-empty set of weeks within
\* 1..13.
C23_LoadedWeeksValid ==
    Loaded =>
        \A k \in 1 .. Len(index_map) : \A j \in 1 .. Len(index_map[k].sessions) :
            /\ index_map[k].sessions[j].weeks # {}
            /\ index_map[k].sessions[j].weeks \subseteq 1 .. 13

\* C24 as stated: the collector never holds more than N solutions, and once
\* the N-th solution is stored the search has been asked to stop.
C24_StopsAtNth ==
    num_solutions > 0 =>
        /\ Len(collector.solutions) <= num_solutions
        /\ collector.solution_count = num_solutions => collector.stopped

\* C24 (amended): the collector never holds more than N solutions, and the
\* search is asked to stop only with N solutions stored and on the report of
\* a further solution, which is not stored.
C24_StopsAtNextCallback ==
    num_solutions > 0 =>
        /\ Len(collector.solutions) <= num_solutions
        /\ collector.solution_count = Len(collector.solutions)
        /\ collector.stopped =>
               /\ collector.solution_count = num_solutions
               /\ \E v \in Solutions(model) : v.chosen \notin Delivered

\* The search was stopped with two solutions asked for and two stored.
C24_Witness ==
    /\ Ranked
    /\ num_solutions = 2
    /\ collector.stopped
    /\ Len(collector.solutions) = 2
    /\ Len(Listed) = 2

SessionTypes == {"LEC", "TUT", "LAB"}

\* index_map with the type of the j-th session of its k-th option changed.
Retyped(k, j, t) == [index_map EXCEPT ![k].sessions[j].type = t]

ConstraintsOf(m) == <<m.exactly_one, m.forbidden, m.mutex>>

\* C25: the exactly-one, forbidding and mutual-exclusion constraints of the
\* model do not depend on any session's type: build_model gives the same ones
\* when the type of one index session or of one lecture is changed among LEC,
\* TUT and LAB, since an option is forbidden, or two options of different
\* courses exclude each other, exactly when two sessions overlap in time on
\* one weekday and their weeks intersect.
C25_TypeIndependentConstraints ==
    pc = "built" =>
        /\ \A k \in OptionIds : \A j \in 1 .. Len(index_map[k].sessions) :
             \A t \in SessionTypes :
                 ConstraintsOf(build_model(lectures, Retyped(k, j, t), selected_courses))
                     = ConstraintsOf(model)
        /\ \A l \in 1 .. Len(lectures) : \A t \in SessionTypes :
             ConstraintsOf(build_model([lectures EXCEPT ![l].type = t], index_map,
                                       selected_courses))
                 = ConstraintsOf(model)
        /\ \A k \in OptionIds :
             Forbidden(k) <=>
                 \E s \in SessionsOf(k), lec \in Lectures :
                     TimesOverlap(s, lec) /\ (s.weeks \cap lec.weeks) # {}
        /\ \A k1, k2 \in OptionIds :
             index_map[k1].course # index_map[k2].course =>
                 (Mutex(k1, k2) <=>
                      \E s1 \in SessionsOf(k1), s2 \in SessionsOf(k2) :
                          TimesOverlap(s1, s2) /\ (s1.weeks \cap s2.weeks) # {})

\* A tutorial overlapping a lab of another course in disjoint weeks: made a
\* lab or a lecture it leaves the constraints as they are, and as a lecture
\* it changes the campus-day indicators.
C25_Witness ==
    /\ pc = "built"
    /\ \E k1, k2 \in OptionIds :
         /\ index_map[k1].course # index_map[k2].course
         /\ index_map[k1].sessions[1].type = "TUT"
         /\ index_map[k2].sessions[1].type = "LAB"
         /\ TimesOverlap(index_map[k1].sessions[1], index_map[k2].sessions[1])
         /\ index_map[k1].sessions[1].weeks \cap index_map[k2].sessions[1].weeks = {}
         /\ ~Mutex(k1, k2)
         /\ build_model(lectures, Retyped(k1, 1, "LEC"), selected_courses).day_sessions
                # model.day_sessions

\* C26: a pair that the diagnostic names is a constraint of the model: when it
\* names a lecture against index X of course B, build_model has added
\* chosen[(B, X)] == 0, and when it names index X of course A against index Y
\* of course B, build_model has added chosen[(A, X)] + chosen[(B, Y)] <= 1.
\* A lecture message names the lecture of another course than the index's, so
\* an index forbidden by its own course's lecture alone is never named.
C26_NamedPairIsConstraint ==
    Failed =>
        /\ result.error.kind = "lecture" =>
               /\ <<result.error.c2, result.error.idx2>> \in model.forbidden
               /\ result.error.c1 # result.error.c2
        /\ result.error.kind = "index" =>
               \/ <<<<result.error.c1, result.error.idx1>>,
                    <<result.error.c2, result.error.idx2>>>> \in model.mutex
               \/ <<<<result.error.c2, result.error.idx2>>,
                    <<result.error.c1, result.error.idx1>>>> \in model.mutex

\* A failure whose diagnostic names a lecture against an option of another
\* course, which the model forbids, while an option of the lecture's own
\* course is forbidden by that lecture alone and goes unnamed.
C26_Witness ==
    /\ Failed
    /\ result.error.kind = "lecture"
    /\ <<result.error.c2, result.error.idx2>> \in model.forbidden
    /\ \E k \in OptionIds :
         /\ Forbidden(k)
         /\ index_map[k].course = result.error.c1
         /\ \A s \in SessionsOf(k), lec \in Lectures :
                Clashes(s, lec) => lec.course = index_map[k].course

\* C27: in a successful result every course that is a key of indexes is one
\* of selected_courses, and every index-session entry of the timetable is of
\* a selected course: an option of a course that index_map has and
\* selected_courses has not is never reported as chosen.
C27_OnlySelectedCoursesReported ==
    Succeeded =>
        /\ DOMAIN result.indexes \subseteq Selected
        /\ \A e \in IndexEntries : e.course \in Selected

\* The rows of the sheet that belong to the k-th loaded option.
RowsOf(k) ==
    {n \in 1 .. Len(rows) : /\ rows[n].course = index_map[k].course
                            /\ rows[n].index = index_map[k].index}

\* C28: every (course, index) key of the map load_indexes returns has at least
\* one session, and it has a session for each of its rows: an index is
\* offered neither with an empty session list nor with only those of its rows
\* that parsed.
C28_NoEmptyOrPartialOption ==
    Loaded =>
        \A k \in 1 .. Len(index_map) :
            /\ Len(index_map[k].sessions) >= 1
            /\ Len(index_map[k].sessions) = Cardinality(RowsOf(k))

====
